---- MODULE Spec2Model ----
(***************************************************************************)
(* Selective revision reconciliation: the scene diff                       *)
(* (compare_scenes_for_changes) and the two response validators            *)
(* (generate_revised_scenes_with_gpt4, generate_revised_wan_scenes_with_   *)
(* gpt4) of app/services/revision_ai.py, and the delivery of the outcome    *)
(* (send_video_callback, send_error_callback) of                           *)
(* app/services/callback_service.py.                                       *)
(*                                                                         *)
(* A text is a sequence of one-character strings, so that str.strip,       *)
(* str.startswith, str.endswith and slicing are computed on characters.    *)
(* A JSON value is a record [t, s, n]: t is its type, s its characters     *)
(* when it is a string, n its number when it is an integer.                *)
(***************************************************************************)
EXTENDS Integers, Sequences, FiniteSets, TLC

VARIABLES
    op,                \* the function called: compare, classic, wan,
                       \* video_callback or error_callback
    pc,                \* start, awaiting (the model call is in flight),
                       \* posting (the POST is in flight), done
    revision_request,  \* the user's request, as characters
    original_scenes,   \* the stored scene list
    revised_scenes,    \* the revised list given to the diff
    scene_changes,     \* what compare_scenes_for_changes returned
    edits,             \* edits made to the inputs and to the response so far
    model_calls,       \* calls of chat.completions.create
    payload,           \* the JSON document of the model's response
    content,           \* the response text, "P" standing for the document
    response,          \* pending, answered (content arrived) or raised
    result,            \* what the validator returned
    failure,           \* none, caught (the body raised and the handler
                       \* returned) or escaped (the caller got the exception)
    is_revision,       \* the callback's is_revision argument
    settings_ok,       \* settings.base44_app_id can be read
    callback_url,      \* the callback's callback_url argument
    endpoint_url,      \* where the POST went
    posts,             \* calls of client.post
    post_payload,      \* the JSON body posted
    outcome,           \* of the POST: none, status, timeout or transport
    status_code,       \* response.status_code when the POST was answered
    delivered          \* what the callback function returned

vars == <<op, pc, revision_request, original_scenes, revised_scenes,
          scene_changes, edits, model_calls, payload, content, response,
          result, failure, is_revision, settings_ok, callback_url,
          endpoint_url, posts, post_payload, outcome, status_code, delivered>>

revisionVars ==
    <<revision_request, original_scenes, revised_scenes, scene_changes, edits,
      model_calls, payload, content, response, result>>

callbackVars ==
    <<is_revision, settings_ok, callback_url, endpoint_url, posts,
      post_payload, outcome, status_code, delivered>>

----------------------------------------------------------------------------
(* JSON values *)

JStr(s) == [t |-> "str", s |-> s, n |-> 0]

JInt(i) == [t |-> "int", s |-> <<>>, n |-> i]

JNull == [t |-> "null", s |-> <<>>, n |-> 0]

IsStr(v) == v.t = "str"

(* a list element: a dict (f its items), or a non-dict JSON value *)
Dict(f) == [t |-> "dict", f |-> f]

NonDict == [t |-> "num", f |-> <<>>]

IsDict(x) == x.t = "dict"

----------------------------------------------------------------------------
(* Python text and dict primitives *)

Whitespace == {" ", "\n"}

RECURSIVE LStrip(_)
LStrip(s) ==
    IF s # <<>> /\ Head(s) \in Whitespace THEN LStrip(Tail(s)) ELSE s

RECURSIVE RStrip(_)
RStrip(s) ==
    IF s # <<>> /\ s[Len(s)] \in Whitespace
    THEN RStrip(SubSeq(s, 1, Len(s) - 1))
    ELSE s

Strip(s) == RStrip(LStrip(s))

(* dict.get(key, default) *)
Get(d, key, default) == IF key \in DOMAIN d THEN d[key] ELSE default

(* d with d[key] = v *)
Put(d, key, v) ==
    [k \in DOMAIN d \cup {key} |-> IF k = key THEN v ELSE d[k]]

(* d without key *)
Del(d, key) == [k \in DOMAIN d \ {key} |-> d[k]]

----------------------------------------------------------------------------
(* compare_scenes_for_changes *)

EmptyText == JStr(<<>>)

Neutral == JStr(<<"n", "e", "u", "t", "r", "a", "l">>)

WiseWoman == JStr(<<"W", "i", "s", "e", "_", "W", "o", "m", "a", "n">>)

(* the key of the i-th scene in a lookup map: scene.get("scene_number", i+1) *)
SceneKey(scenes, i) == Get(scenes[i].f, "scene_number", JInt(i))

(* variant: the list is indexed from 0 with the scene number *)
MapGetByIndex(scenes, scene_number) ==
    IF scene_number + 1 \in 1..Len(scenes) /\ IsDict(scenes[scene_number + 1])
    THEN scenes[scene_number + 1].f
    ELSE <<>>

(* {scene.get("scene_number", i+1): scene for i, scene in enumerate(scenes)}  *)
(* followed by map.get(scene_number, {}): the last scene entered under the    *)
(* key wins, and a key never entered gives the empty dict.                    *)
MapGet(scenes, scene_number) ==
    LET hits == {i \in 1..Len(scenes) : SceneKey(scenes, i) = JInt(scene_number)}
    IN  IF hits = {} THEN <<>>
        ELSE scenes[CHOOSE i \in hits : \A j \in hits : j <= i].f

(* building a lookup map calls scene.get on every element *)
MapRaises(scenes) == \E i \in 1..Len(scenes) : ~IsDict(scenes[i])

(* "if not original_scene or not revised_scene: continue" *)
Skipped(original, revised, scene_number) ==
    \/ DOMAIN MapGet(original, scene_number) = {}
    \/ DOMAIN MapGet(revised, scene_number) = {}

ComparedFields ==
    << <<"image_prompt", EmptyText>>,
       <<"vioce_over", EmptyText>>,
       <<"eleven_labs_emotion", Neutral>>,
       <<"eleven_labs_voice_id", WiseWoman>>,
       <<"visual_description", EmptyText>> >>

(* scene.get(field, default).strip() fails on a value that is not a str *)
StripRaises(scene) ==
    \E i \in 1..Len(ComparedFields) :
        ~IsStr(Get(scene, ComparedFields[i][1], ComparedFields[i][2]))

(* scene.get(field, default).strip() *)
Stripped(scene, field, default) == Strip(Get(scene, field, default).s)

(* variant: the prompts are compared as stored, without .strip() *)
image_needs_regen_untrimmed(o, r) ==
    Get(o, "image_prompt", EmptyText).s # Get(r, "image_prompt", EmptyText).s

image_needs_regen(o, r) ==
    Stripped(o, "image_prompt", EmptyText) # Stripped(r, "image_prompt", EmptyText)

(* variant: the revised side is read without the "neutral" and "Wise_Woman"   *)
(* defaults                                                                   *)
voiceover_needs_regen_no_defaults(o, r) ==
    \/ Stripped(o, "vioce_over", EmptyText) # Stripped(r, "vioce_over", EmptyText)
    \/ Stripped(o, "eleven_labs_emotion", Neutral)
         # Stripped(r, "eleven_labs_emotion", EmptyText)
    \/ Stripped(o, "eleven_labs_voice_id", WiseWoman)
         # Stripped(r, "eleven_labs_voice_id", EmptyText)

(* variant: the original side is read without the "neutral" and "Wise_Woman"  *)
(* defaults                                                                   *)
voiceover_needs_regen_original_no_defaults(o, r) ==
    \/ Stripped(o, "vioce_over", EmptyText) # Stripped(r, "vioce_over", EmptyText)
    \/ Stripped(o, "eleven_labs_emotion", EmptyText)
         # Stripped(r, "eleven_labs_emotion", Neutral)
    \/ Stripped(o, "eleven_labs_voice_id", EmptyText)
         # Stripped(r, "eleven_labs_voice_id", WiseWoman)

(* variant: the voice id is left out of the comparison *)
voiceover_needs_regen_no_voice_id(o, r) ==
    \/ Stripped(o, "vioce_over", EmptyText) # Stripped(r, "vioce_over", EmptyText)
    \/ Stripped(o, "eleven_labs_emotion", Neutral)
         # Stripped(r, "eleven_labs_emotion", Neutral)

voiceover_needs_regen(o, r) ==
    \/ Stripped(o, "vioce_over", EmptyText) # Stripped(r, "vioce_over", EmptyText)
    \/ Stripped(o, "eleven_labs_emotion", Neutral)
         # Stripped(r, "eleven_labs_emotion", Neutral)
    \/ Stripped(o, "eleven_labs_voice_id", WiseWoman)
         # Stripped(r, "eleven_labs_voice_id", WiseWoman)

(* variant: the video follows its own prompt only *)
video_needs_regen_prompt_only(o, r) ==
    Stripped(o, "visual_description", EmptyText)
      # Stripped(r, "visual_description", EmptyText)

(* variant: the video also follows the audio-direction fields *)
video_needs_regen_with_audio(o, r) ==
    \/ Stripped(o, "visual_description", EmptyText)
         # Stripped(r, "visual_description", EmptyText)
    \/ image_needs_regen(o, r)
    \/ Get(o, "sound_effects", EmptyText) # Get(r, "sound_effects", EmptyText)
    \/ Get(o, "music_direction", EmptyText) # Get(r, "music_direction", EmptyText)

video_needs_regen(o, r) ==
    \/ Stripped(o, "visual_description", EmptyText)
         # Stripped(r, "visual_description", EmptyText)
    \/ image_needs_regen(o, r)

(* variant: the asset URLs are read from the revised scene *)
SceneChangeRevisedUrls(scene_number, o, r) ==
    [scene_number |-> scene_number,
     image_needs_regen |-> image_needs_regen(o, r),
     voiceover_needs_regen |-> voiceover_needs_regen(o, r),
     video_needs_regen |-> video_needs_regen(o, r),
     original_image_url |-> Get(r, "image_url", EmptyText),
     original_voiceover_url |-> Get(r, "voiceover_url", EmptyText),
     original_video_url |-> Get(r, "scene_clip_url", EmptyText),
     revised_image_prompt |-> Stripped(r, "image_prompt", EmptyText),
     revised_voiceover_prompt |-> Stripped(r, "vioce_over", EmptyText),
     revised_emotion |-> Stripped(r, "eleven_labs_emotion", Neutral),
     revised_voice_id |-> Stripped(r, "eleven_labs_voice_id", WiseWoman),
     revised_video_prompt |-> Stripped(r, "visual_description", EmptyText)]

(* the scene_change dict of one matched scene *)
SceneChange(scene_number, o, r) ==
    [scene_number |-> scene_number,
     image_needs_regen |-> image_needs_regen(o, r),
     voiceover_needs_regen |-> voiceover_needs_regen(o, r),
     video_needs_regen |-> video_needs_regen(o, r),
     original_image_url |-> Get(o, "image_url", EmptyText),
     original_voiceover_url |-> Get(o, "voiceover_url", EmptyText),
     original_video_url |-> Get(o, "scene_clip_url", EmptyText),
     revised_image_prompt |-> Stripped(r, "image_prompt", EmptyText),
     revised_voiceover_prompt |-> Stripped(r, "vioce_over", EmptyText),
     revised_emotion |-> Stripped(r, "eleven_labs_emotion", Neutral),
     revised_voice_id |-> Stripped(r, "eleven_labs_voice_id", WiseWoman),
     revised_video_prompt |-> Stripped(r, "visual_description", EmptyText)]

(* the loop over range(1, len(revised_scenes) + 1), from scene_number on *)
RECURSIVE CompareFrom(_, _, _)
CompareFrom(original, revised, scene_number) ==
    IF scene_number > Len(revised) THEN <<>>
    ELSE IF Skipped(original, revised, scene_number)
         THEN CompareFrom(original, revised, scene_number + 1)
         ELSE <<SceneChange(scene_number, MapGet(original, scene_number),
                            MapGet(revised, scene_number))>>
              \o CompareFrom(original, revised, scene_number + 1)

(* an exception anywhere in the body is caught and the function returns [] *)
CompareRaises(original, revised) ==
    \/ MapRaises(original)
    \/ MapRaises(revised)
    \/ \E n \in 1..Len(revised) :
          /\ ~Skipped(original, revised, n)
          /\ \/ StripRaises(MapGet(original, n))
             \/ StripRaises(MapGet(revised, n))

compare_scenes_for_changes(original, revised) ==
    IF CompareRaises(original, revised) THEN <<>>
    ELSE CompareFrom(original, revised, 1)

----------------------------------------------------------------------------
(* The model's response text and its cleaning *)

(* the backquote character, written "^" (a string cannot hold a backquote) *)
Backquote == "^"

(* "```json" and "```" *)
FenceOpen == <<Backquote, Backquote, Backquote, "j", "s", "o", "n">>

FenceClose == <<Backquote, Backquote, Backquote>>

(* content[7:] and content[:-3] *)
FenceOpenLen == 7

FenceCloseLen == 3

StartsWith(s, prefix) ==
    /\ Len(s) >= Len(prefix)
    /\ SubSeq(s, 1, Len(prefix)) = prefix

EndsWith(s, suffix) ==
    /\ Len(s) >= Len(suffix)
    /\ SubSeq(s, Len(s) - Len(suffix) + 1, Len(s)) = suffix

(* variant: the trailing marker is left in place *)
CleanResponseLeadingOnly(text) ==
    LET a == Strip(text)
        b == IF StartsWith(a, FenceOpen) THEN SubSeq(a, FenceOpenLen + 1, Len(a))
             ELSE a
    IN  Strip(b)

(* content.strip(); drop a leading "```json"; drop a trailing "```"; strip *)
CleanResponse(text) ==
    LET a == Strip(text)
        b == IF StartsWith(a, FenceOpen) THEN SubSeq(a, FenceOpenLen + 1, Len(a))
             ELSE a
        c == IF EndsWith(b, FenceClose) THEN SubSeq(b, 1, Len(b) - FenceCloseLen)
             ELSE b
    IN  Strip(c)

(* variant: the document is picked out of whatever surrounds it *)
JsonLoadsFailsLenient(text) == \A i \in 1..Len(text) : text[i] # "P"

(* The character "P" stands for the text of one JSON document, the document   *)
(* itself being kept apart (no JSON text begins or ends with a backquote, so  *)
(* the cleaning never cuts into it).  json.loads accepts the text exactly     *)
(* when it is that document alone; everything else the alphabet can spell     *)
(* is a JSONDecodeError.                                                      *)
JsonLoadsFails(text) == text # <<"P">>

(* A parsed document: shape "object" is a dict with a "scenes" list, "list" a *)
(* bare list, "no_scenes" a dict without "scenes" (scenes is then the list    *)
(* it carries under another key), "scenes_not_list" a dict whose "scenes" is  *)
(* not a list, "scalar" a string, number, boolean or null.                    *)
Document(shape, scenes) == [shape |-> shape, scenes |-> scenes]

(* variant: fewer scenes than expected pass *)
HasSceneListAtMost(doc, count) ==
    /\ doc.shape \in {"object", "list"}
    /\ Len(doc.scenes) <= count

(* variant: the list is taken from wherever the document carries one *)
HasSceneListAnyShape(doc, count) == Len(doc.scenes) = count

(* lines 559-572 / 343-356: the scene list of the parsed response, or nothing *)
HasSceneList(doc, count) ==
    /\ doc.shape \in {"object", "list"}
    /\ Len(doc.scenes) = count

(* "field not in scene" on a number is a TypeError *)
MembershipRaises(scenes) == \E i \in 1..Len(scenes) : ~IsDict(scenes[i])

(* variant: only the first scene is checked *)
MissingFieldInFirst(scenes, required_fields) ==
    /\ scenes # <<>>
    /\ \E field \in required_fields : field \notin DOMAIN scenes[1].f

MissingField(scenes, required_fields) ==
    \E i \in 1..Len(scenes) :
        \E field \in required_fields : field \notin DOMAIN scenes[i].f

(* value[:50] + "..." needs a str *)
SliceRaises(scenes, field) ==
    \E i \in 1..Len(scenes) : ~IsStr(Get(scenes[i].f, field, EmptyText))

NoResult == [pair |-> FALSE, scenes |-> <<>>, music |-> FALSE]

(* the required-field loop stops at the first scene that is no dict (the     *)
(* membership test raises) or lacks a field (return []): it raises when the  *)
(* former comes first                                                        *)
FieldCheckRaises(scenes, required_fields) ==
    \E i \in 1..Len(scenes) :
        /\ ~IsDict(scenes[i])
        /\ \A j \in 1..(i - 1) :
              /\ IsDict(scenes[j])
              /\ required_fields \subseteq DOMAIN scenes[j].f

(* variant: the exception is logged and raised again *)
HandlerReraises(raised) == IF raised THEN "escaped" ELSE "none"

(* lines 120-123, 390-397, 589-596: the whole body of each function is in a  *)
(* try whose "except Exception" returns []                                   *)
Handler(raised) == IF raised THEN "caught" ELSE "none"

----------------------------------------------------------------------------
(* generate_revised_scenes_with_gpt4 *)

ClassicScenes == 5

ClassicRequired ==
    {"scene_number", "image_prompt", "visual_description", "vioce_over",
     "sound_effects", "music_direction"}

(* scenes_for_ai, lines 420-431 *)
scene_data(scene) ==
    [scene_number |-> Get(scene, "scene_number", JInt(1)),
     image_prompt |-> Get(scene, "image_prompt", EmptyText),
     visual_description |-> Get(scene, "visual_description", EmptyText),
     vioce_over |-> Get(scene, "vioce_over", EmptyText),
     sound_effects |-> Get(scene, "sound_effects", EmptyText),
     music_direction |-> Get(scene, "music_direction", EmptyText)]

scenes_for_ai(original) ==
    [i \in 1..Len(original) |-> Dict(scene_data(original[i].f))]

(* an exception while the prompt is built: scene.get on a non-dict, or the    *)
(* logged visual_description[:50] of a value that is no str                   *)
ClassicPrepareRaises(original) ==
    \/ \E i \in 1..Len(original) : ~IsDict(original[i])
    \/ SliceRaises(original, "visual_description")

(* lines 534-596: from the response content to the returned value *)
ValidateClassic(text, doc) ==
    IF text = <<>> THEN NoResult
    ELSE IF CleanResponse(text) = <<>> THEN NoResult
    ELSE IF JsonLoadsFails(CleanResponse(text)) THEN NoResult
    ELSE IF ~HasSceneList(doc, ClassicScenes) THEN NoResult
    ELSE IF MembershipRaises(doc.scenes) THEN NoResult
    ELSE IF MissingField(doc.scenes, ClassicRequired) THEN NoResult
    ELSE IF SliceRaises(doc.scenes, "visual_description") THEN NoResult
    ELSE [pair |-> FALSE, scenes |-> doc.scenes, music |-> FALSE]

(* the body raises between the response and the return: json.loads, the     *)
(* membership test of a scene that is no dict, the logged slice              *)
ClassicRaises(text, doc) ==
    /\ text # <<>>
    /\ CleanResponse(text) # <<>>
    /\ \/ JsonLoadsFails(CleanResponse(text))
       \/ /\ HasSceneList(doc, ClassicScenes)
          /\ \/ FieldCheckRaises(doc.scenes, ClassicRequired)
             \/ /\ ~MembershipRaises(doc.scenes)
                /\ ~MissingField(doc.scenes, ClassicRequired)
                /\ SliceRaises(doc.scenes, "visual_description")

----------------------------------------------------------------------------
(* generate_revised_wan_scenes_with_gpt4 *)

WanScenes == 6

WanRequired ==
    {"scene_number", "nano_banana_prompt", "elevenlabs_prompt",
     "eleven_labs_emotion", "eleven_labs_voice_id", "wan2_5_prompt"}

UpperCase ==
    <<"A", "B", "C", "D", "E", "F", "G", "H", "I", "J", "K", "L", "M",
      "N", "O", "P", "Q", "R", "S", "T", "U", "V", "W", "X", "Y", "Z">>

LowerCase ==
    <<"a", "b", "c", "d", "e", "f", "g", "h", "i", "j", "k", "l", "m",
      "n", "o", "p", "q", "r", "s", "t", "u", "v", "w", "x", "y", "z">>

(* variant: the request is searched as typed *)
LowerAsTyped(s) == s

(* str.lower() *)
Lower(s) ==
    [i \in 1..Len(s) |->
        IF \E j \in 1..Len(UpperCase) : UpperCase[j] = s[i]
        THEN LowerCase[CHOOSE j \in 1..Len(UpperCase) : UpperCase[j] = s[i]]
        ELSE s[i]]

(* keyword in text *)
Contains(text, keyword) ==
    \E i \in 1..(Len(text) - Len(keyword) + 1) :
        SubSeq(text, i, i + Len(keyword) - 1) = keyword

music_missing_keywords ==
    {<<"n", "o", " ", "m", "u", "s", "i", "c">>,
     <<"n", "o", " ", "b", "a", "c", "k", "g", "r", "o", "u", "n", "d", " ",
       "m", "u", "s", "i", "c">>,
     <<"m", "i", "s", "s", "i", "n", "g", " ", "m", "u", "s", "i", "c">>,
     <<"a", "d", "d", " ", "m", "u", "s", "i", "c">>,
     <<"n", "e", "e", "d", "s", " ", "m", "u", "s", "i", "c">>,
     <<"w", "i", "t", "h", "o", "u", "t", " ", "m", "u", "s", "i", "c">>,
     <<"n", "o", " ", "s", "o", "u", "n", "d">>,
     <<"s", "i", "l", "e", "n", "t">>}

mentions_missing_music(request) ==
    \E keyword \in music_missing_keywords : Contains(Lower(request), keyword)

(* wan_scenes_for_ai, lines 155-165 *)
wan_scene_data(scene) ==
    [scene_number |-> Get(scene, "scene_number", JInt(1)),
     nano_banana_prompt |-> Get(scene, "image_prompt", EmptyText),
     elevenlabs_prompt |-> Get(scene, "vioce_over", EmptyText),
     eleven_labs_emotion |-> Get(scene, "eleven_labs_emotion", Neutral),
     eleven_labs_voice_id |-> Get(scene, "eleven_labs_voice_id", WiseWoman),
     wan2_5_prompt |-> Get(scene, "visual_description", EmptyText)]

wan_scenes_for_ai(original) ==
    [i \in 1..Len(original) |-> Dict(wan_scene_data(original[i].f))]

(* scene.get on a non-dict, or the logged nano_banana_prompt[:50] of a value  *)
(* that is no str                                                             *)
WanPrepareRaises(original) ==
    \/ \E i \in 1..Len(original) : ~IsDict(original[i])
    \/ SliceRaises(original, "image_prompt")

(* variant: visual_description is taken from the image prompt *)
db_scene_swapped(wan_scene) ==
    [scene_number |-> Get(wan_scene, "scene_number", JInt(1)),
     image_prompt |-> Get(wan_scene, "nano_banana_prompt", EmptyText),
     visual_description |-> Get(wan_scene, "nano_banana_prompt", EmptyText),
     vioce_over |-> Get(wan_scene, "elevenlabs_prompt", EmptyText),
     eleven_labs_emotion |-> Get(wan_scene, "eleven_labs_emotion", Neutral),
     eleven_labs_voice_id |-> Get(wan_scene, "eleven_labs_voice_id", WiseWoman),
     sound_effects |-> EmptyText,
     music_direction |-> EmptyText]

(* variant: a null emotion or voice id is replaced by the default *)
db_scene_defaulting(wan_scene) ==
    [scene_number |-> Get(wan_scene, "scene_number", JInt(1)),
     image_prompt |-> Get(wan_scene, "nano_banana_prompt", EmptyText),
     visual_description |-> Get(wan_scene, "wan2_5_prompt", EmptyText),
     vioce_over |-> Get(wan_scene, "elevenlabs_prompt", EmptyText),
     eleven_labs_emotion |->
        IF Get(wan_scene, "eleven_labs_emotion", JNull) = JNull THEN Neutral
        ELSE wan_scene["eleven_labs_emotion"],
     eleven_labs_voice_id |->
        IF Get(wan_scene, "eleven_labs_voice_id", JNull) = JNull THEN WiseWoman
        ELSE wan_scene["eleven_labs_voice_id"],
     sound_effects |-> EmptyText,
     music_direction |-> EmptyText]

(* database_format_scenes, lines 367-379 *)
db_scene(wan_scene) ==
    [scene_number |-> Get(wan_scene, "scene_number", JInt(1)),
     image_prompt |-> Get(wan_scene, "nano_banana_prompt", EmptyText),
     visual_description |-> Get(wan_scene, "wan2_5_prompt", EmptyText),
     vioce_over |-> Get(wan_scene, "elevenlabs_prompt", EmptyText),
     eleven_labs_emotion |-> Get(wan_scene, "eleven_labs_emotion", Neutral),
     eleven_labs_voice_id |-> Get(wan_scene, "eleven_labs_voice_id", WiseWoman),
     sound_effects |-> EmptyText,
     music_direction |-> EmptyText]

database_format_scenes(revised_wan_scenes) ==
    [i \in 1..Len(revised_wan_scenes) |-> Dict(db_scene(revised_wan_scenes[i].f))]

(* variant: every failure path returns the pair, with an empty scene list *)
ValidateWanAlwaysPair(text, doc, request) ==
    LET nothing == [pair |-> TRUE, scenes |-> <<>>,
                    music |-> mentions_missing_music(request)]
    IN  IF text = <<>> THEN nothing
        ELSE IF CleanResponse(text) = <<>> THEN nothing
        ELSE IF JsonLoadsFails(CleanResponse(text)) THEN nothing
        ELSE IF ~HasSceneList(doc, WanScenes) THEN nothing
        ELSE IF MembershipRaises(doc.scenes) THEN nothing
        ELSE IF MissingField(doc.scenes, WanRequired) THEN nothing
        ELSE IF SliceRaises(database_format_scenes(doc.scenes), "image_prompt")
             THEN nothing
        ELSE [pair |-> TRUE, scenes |-> database_format_scenes(doc.scenes),
              music |-> mentions_missing_music(request)]

(* lines 318-397: from the response content to the returned value *)
ValidateWan(text, doc, request) ==
    IF text = <<>> THEN NoResult
    ELSE IF CleanResponse(text) = <<>> THEN NoResult
    ELSE IF JsonLoadsFails(CleanResponse(text)) THEN NoResult
    ELSE IF ~HasSceneList(doc, WanScenes) THEN NoResult
    ELSE IF MembershipRaises(doc.scenes) THEN NoResult
    ELSE IF MissingField(doc.scenes, WanRequired) THEN NoResult
    ELSE IF SliceRaises(database_format_scenes(doc.scenes), "image_prompt")
         THEN NoResult
    ELSE [pair |-> TRUE, scenes |-> database_format_scenes(doc.scenes),
          music |-> mentions_missing_music(request)]

WanRaises(text, doc) ==
    /\ text # <<>>
    /\ CleanResponse(text) # <<>>
    /\ \/ JsonLoadsFails(CleanResponse(text))
       \/ /\ HasSceneList(doc, WanScenes)
          /\ \/ FieldCheckRaises(doc.scenes, WanRequired)
             \/ /\ ~MembershipRaises(doc.scenes)
                /\ ~MissingField(doc.scenes, WanRequired)
                /\ SliceRaises(database_format_scenes(doc.scenes),
                               "image_prompt")

----------------------------------------------------------------------------
(* send_video_callback and send_error_callback *)

Callbacks == {"video_callback", "error_callback"}

NoPayload == <<>>

(* lines 42, 137: the fixed URL; the callback_url argument is not read *)
StaticEndpoint == "n8nVideoCallback"

(* lines 46-62; an argument's value is written as the argument's name *)
VideoPayload(revision) ==
    IF revision
    THEN [video_id |-> "video_id", chat_id |-> "chat_id",
          video_url |-> "final_video_url", is_revision |-> TRUE]
    ELSE [video_url |-> "final_video_url", video_id |-> "video_id",
          videoId |-> "video_id", chat_id |-> "chat_id",
          user_id |-> "user_id"]

(* lines 140-152 *)
ErrorPayload(revision) ==
    IF revision
    THEN [error |-> "error_message", video_id |-> "video_id",
          chat_id |-> "chat_id", user_id |-> "user_id", is_revision |-> TRUE]
    ELSE [error |-> "error_message", video_id |-> "video_id",
          chat_id |-> "chat_id", user_id |-> "user_id",
          videoId |-> "video_id", status |-> "failed"]

(* the statuses the endpoint answers with *)
StatusCodes == {200, 201, 302, 404, 500}

StatusOk == 200

(* variant: every 2xx status counts as delivered *)
SuccessAny2xx(code) == code \in 200..299

(* lines 87, 170: response.status_code == 200 *)
Success(code) == code = StatusOk

----------------------------------------------------------------------------
(* Inputs: stored scene sets and the revisions made of them *)

(* how many edits separate a revised scene list from the original one *)
MaxEdits == 2

Digit == <<"1", "2", "3", "4", "5", "6", "7">>

Sad == JStr(<<"s", "a", "d">>)

DeepVoiceMan ==
    JStr(<<"D", "e", "e", "p", "_", "V", "o", "i", "c", "e", "_", "M", "a", "n">>)

(* a stored scene; the last scene's clip was never generated *)
StoredScene(workflow, k, count) ==
    LET fields ==
            [scene_number |-> JInt(k),
             image_prompt |-> JStr(<<"i", Digit[k]>>),
             visual_description |-> JStr(<<"m", Digit[k]>>),
             vioce_over |-> JStr(<<"v", " ", Digit[k]>>),
             image_url |-> JStr(<<"I", Digit[k]>>),
             voiceover_url |-> JStr(<<"V", Digit[k]>>)]
        clip == IF k = count THEN fields
                ELSE Put(fields, "scene_clip_url", JStr(<<"C", Digit[k]>>))
    IN  IF workflow = "wan"
        THEN Put(Put(Put(Put(clip, "eleven_labs_emotion", Sad),
                     "eleven_labs_voice_id", DeepVoiceMan),
                     "sound_effects", EmptyText), "music_direction", EmptyText)
        ELSE Put(Put(clip, "sound_effects", JStr(<<"f">>)),
                 "music_direction", JStr(<<"j">>))

SceneCount(workflow) == IF workflow = "wan" THEN WanScenes ELSE ClassicScenes

StoredScenes(workflow) ==
    [k \in 1..SceneCount(workflow) |->
        Dict(StoredScene(workflow, k, SceneCount(workflow)))]

(* One edit of a scene list.  how = "del" removes the field, "drop" removes   *)
(* the last scene, "extra" appends a scene, "nondict" makes the element a     *)
(* number; any other way sets the field of scene k (k = 0: of every scene).   *)
FieldEdits ==
    {<<"image_prompt", "diff">>, <<"image_prompt", "pad">>,
     <<"image_prompt", "del">>, <<"image_prompt", "null">>,
     <<"vioce_over", "diff">>, <<"vioce_over", "pad">>,
     <<"vioce_over", "number">>,
     <<"visual_description", "diff">>, <<"visual_description", "pad">>,
     <<"eleven_labs_emotion", "sad">>, <<"eleven_labs_emotion", "neutral">>,
     <<"eleven_labs_emotion", "del">>,
     <<"eleven_labs_voice_id", "deep">>, <<"eleven_labs_voice_id", "wise">>,
     <<"scene_number", "next">>, <<"scene_number", "beyond">>,
     <<"scene_number", "del">>,
     <<"image_url", "diff">>, <<"sound_effects", "diff">>,
     <<"music_direction", "diff">>}

EditedValue(scenes, k, current, how) ==
    CASE how = "diff" -> JStr(<<"b">>)
      [] how = "pad" -> JStr(<<" ">> \o current.s \o <<"\n">>)
      [] how = "null" -> JNull
      [] how = "number" -> JInt(7)
      [] how = "sad" -> Sad
      [] how = "neutral" -> Neutral
      [] how = "deep" -> DeepVoiceMan
      [] how = "wise" -> WiseWoman
      [] how = "next" -> JInt((k % Len(scenes)) + 1)
      [] how = "beyond" -> JInt(Len(scenes) + 1)

EditScene(scenes, k, field, how) ==
    LET d == scenes[k].f
    IN  IF ~IsDict(scenes[k]) THEN scenes[k]
        ELSE IF how = "del" THEN Dict(Del(d, field))
        ELSE IF how = "pad" /\ ~(field \in DOMAIN d /\ IsStr(d[field]))
             THEN scenes[k]
        ELSE Dict(Put(d, field, EditedValue(scenes, k, Get(d, field, JNull), how)))

ApplyEdit(scenes, k, field, how) ==
    CASE how = "drop" -> SubSeq(scenes, 1, Len(scenes) - 1)
      [] how = "extra" ->
            Append(scenes, Dict([scene_number |-> JInt(Len(scenes) + 1),
                                 image_prompt |-> JStr(<<"e">>)]))
      [] how = "nondict" ->
            [i \in 1..Len(scenes) |-> IF i = k THEN NonDict ELSE scenes[i]]
      [] k = 0 ->
            [i \in 1..Len(scenes) |-> EditScene(scenes, i, field, how)]
      [] OTHER ->
            [i \in 1..Len(scenes) |->
                IF i = k THEN EditScene(scenes, i, field, how) ELSE scenes[i]]

(* the scenes an edit may address: a middle one and the last one *)
EditedScenes(scenes) == {3, Len(scenes)} \cap (1..Len(scenes))

(* the edits the model may make to the scenes it was sent *)
ResponseEdits(required, logged) ==
    {<<field, "del">> : field \in required}
    \cup {<<field, "diff">> : field \in required \ {"scene_number"}}
    \cup {<<logged, "null">>, <<logged, "pad">>,
          <<"eleven_labs_emotion", "null">>, <<"sound_effects", "diff">>,
          <<"scene_number", "next">>, <<"scene_number", "beyond">>}

Requests ==
    {<<"N", "o", " ", "M", "u", "s", "i", "c">>,
     <<"n", "e", "w", " ", "v", "o", "i", "c", "e">>}

(* requests that name music without a keyword, or a keyword within a word *)
MusicRequests ==
    {<<"n", "o", " ", " ", "m", "u", "s", "i", "c">>,
     <<"S", "i", "l", "e", "n", "t", "l", "y">>}

----------------------------------------------------------------------------
(* The state machine *)

Init ==
    /\ op \in {"compare", "classic", "wan"} \cup Callbacks
    /\ pc = "start"
    /\ IF op \in Callbacks
       THEN /\ original_scenes = <<>>
            /\ revised_scenes = <<>>
            /\ revision_request = <<>>
            /\ is_revision \in BOOLEAN
            /\ settings_ok \in BOOLEAN
            /\ callback_url \in {"None", "custom"}
       ELSE /\ \E workflow \in {"classic", "wan"} :
                  /\ op # "compare" => workflow = op
                  /\ original_scenes = StoredScenes(workflow)
                  /\ revised_scenes = IF op = "compare"
                                      THEN StoredScenes(workflow) ELSE <<>>
            /\ revision_request \in IF op = "wan"
                                     THEN Requests \cup MusicRequests
                                     ELSE Requests
            /\ is_revision = FALSE
            /\ settings_ok = TRUE
            /\ callback_url = "None"
    /\ posts = 0
    /\ endpoint_url = "none"
    /\ post_payload = NoPayload
    /\ outcome = "none"
    /\ status_code = 0
    /\ delivered = FALSE
    /\ scene_changes = <<>>
    /\ edits = 0
    /\ model_calls = 0
    /\ payload = Document("scalar", <<>>)
    /\ content = <<>>
    /\ response = "pending"
    /\ result = NoResult
    /\ failure = "none"

(* the revised list handed to the diff departs from the stored one *)
EditRevised ==
    /\ op = "compare" /\ pc = "start" /\ edits < MaxEdits
    /\ revised_scenes # <<>>
    /\ \/ \E k \in EditedScenes(revised_scenes), e \in FieldEdits :
             revised_scenes' = ApplyEdit(revised_scenes, k, e[1], e[2])
       \/ \E e \in {<<"eleven_labs_emotion", "neutral">>,
                    <<"eleven_labs_voice_id", "wise">>} :
             revised_scenes' = ApplyEdit(revised_scenes, 0, e[1], e[2])
       \/ \E how \in {"drop", "extra", "nondict"} :
             revised_scenes' = ApplyEdit(revised_scenes, 1, "", how)
    /\ edits' = edits + 1
    /\ UNCHANGED <<op, pc, revision_request, original_scenes, scene_changes,
                   model_calls, payload, content, response, result, failure>>
    /\ UNCHANGED callbackVars

(* the stored list itself has a gap, padded text, a missing or a null field *)
EditOriginal ==
    /\ op \in {"compare", "classic", "wan"}
    /\ pc = "start" /\ edits < MaxEdits
    /\ \E e \in {<<"scene_number", "beyond">>, <<"image_prompt", "pad">>,
                 <<"eleven_labs_emotion", "del">>,
                 <<"eleven_labs_voice_id", "wise">>,
                 <<"image_prompt", "null">>, <<"visual_description", "null">>} :
          original_scenes' = ApplyEdit(original_scenes, 3, e[1], e[2])
    /\ edits' = edits + 1
    /\ UNCHANGED <<op, pc, revision_request, revised_scenes, scene_changes,
                   model_calls, payload, content, response, result, failure>>
    /\ UNCHANGED callbackVars

Compare ==
    /\ op = "compare" /\ pc = "start"
    /\ scene_changes' = compare_scenes_for_changes(original_scenes, revised_scenes)
    /\ failure' = Handler(CompareRaises(original_scenes, revised_scenes))
    /\ pc' = "done"
    /\ UNCHANGED <<op, revision_request, original_scenes, revised_scenes, edits,
                   model_calls, payload, content, response, result>>
    /\ UNCHANGED callbackVars

(* generate_revised_scenes_with_gpt4 up to the awaited model call; the model  *)
(* starts from the scenes it was sent, in the output format it was asked for  *)
CallClassic ==
    /\ op = "classic" /\ pc = "start"
    /\ IF ClassicPrepareRaises(original_scenes)
       THEN /\ pc' = "done"
            /\ UNCHANGED <<model_calls, payload, content>>
       ELSE /\ pc' = "awaiting"
            /\ model_calls' = model_calls + 1
            /\ payload' = Document("object", scenes_for_ai(original_scenes))
            /\ content' = <<"P">>
    /\ result' = NoResult
    /\ failure' = Handler(ClassicPrepareRaises(original_scenes))
    /\ UNCHANGED <<op, revision_request, original_scenes, revised_scenes,
                   scene_changes, edits, response>>
    /\ UNCHANGED callbackVars

(* generate_revised_wan_scenes_with_gpt4 up to the awaited model call *)
CallWan ==
    /\ op = "wan" /\ pc = "start"
    /\ IF WanPrepareRaises(original_scenes)
       THEN /\ pc' = "done"
            /\ UNCHANGED <<model_calls, payload, content>>
       ELSE /\ pc' = "awaiting"
            /\ model_calls' = model_calls + 1
            /\ payload' = Document("object", wan_scenes_for_ai(original_scenes))
            /\ content' = <<"P">>
    /\ result' = NoResult
    /\ failure' = Handler(WanPrepareRaises(original_scenes))
    /\ UNCHANGED <<op, revision_request, original_scenes, revised_scenes,
                   scene_changes, edits, response>>
    /\ UNCHANGED callbackVars

(* the model changes the document it answers with *)
EditPayload ==
    /\ pc = "awaiting" /\ edits < MaxEdits
    /\ \/ /\ payload.scenes # <<>>
          /\ \E k \in EditedScenes(payload.scenes),
                e \in IF op = "wan"
                      THEN ResponseEdits(WanRequired, "nano_banana_prompt")
                      ELSE ResponseEdits(ClassicRequired, "visual_description") :
                payload' = Document(payload.shape,
                                    ApplyEdit(payload.scenes, k, e[1], e[2]))
       \/ /\ payload.scenes # <<>>
          /\ \E how \in {"drop", "extra", "nondict"} :
                payload' = Document(payload.shape,
                                    ApplyEdit(payload.scenes, 1, "", how))
       \/ \E shape \in {"list", "no_scenes", "scenes_not_list", "scalar"} :
             payload' = Document(shape,
                                 IF shape \in {"list", "no_scenes"}
                                 THEN payload.scenes ELSE <<>>)
    /\ edits' = edits + 1
    /\ UNCHANGED <<op, pc, revision_request, original_scenes, revised_scenes,
                   scene_changes, model_calls, content, response, result,
                   failure>>
    /\ UNCHANGED callbackVars

(* the model changes the text around the document, or answers without one *)
EditText ==
    /\ pc = "awaiting" /\ edits < MaxEdits
    /\ content' \in
          {FenceOpen \o <<"\n">> \o content,
           content \o <<"\n">> \o FenceClose,
           FenceOpen \o content \o FenceClose,
           <<" ">> \o content \o <<"\n">>,
           <<"x">>, <<>>}
    /\ edits' = edits + 1
    /\ UNCHANGED <<op, pc, revision_request, original_scenes, revised_scenes,
                   scene_changes, model_calls, payload, response, result,
                   failure>>
    /\ UNCHANGED callbackVars

(* the awaited call raises instead of answering *)
ModelRaises ==
    /\ pc = "awaiting"
    /\ result' = NoResult
    /\ failure' = Handler(TRUE)
    /\ response' = "raised"
    /\ pc' = "done"
    /\ UNCHANGED <<op, revision_request, original_scenes, revised_scenes,
                   scene_changes, edits, model_calls, payload, content>>
    /\ UNCHANGED callbackVars

(* variant: a rejected response is answered by calling the model once more *)
ReturnClassicRetrying ==
    /\ op = "classic" /\ pc = "awaiting"
    /\ result' = ValidateClassic(content, payload)
    /\ failure' = Handler(ClassicRaises(content, payload))
    /\ response' = "answered"
    /\ IF result' = NoResult /\ model_calls = 1
       THEN pc' = "awaiting" /\ model_calls' = model_calls + 1
       ELSE pc' = "done" /\ UNCHANGED model_calls
    /\ UNCHANGED <<op, revision_request, original_scenes, revised_scenes,
                   scene_changes, edits, payload, content>>
    /\ UNCHANGED callbackVars

(* generate_revised_scenes_with_gpt4 from the response to its return *)
ReturnClassic ==
    /\ op = "classic" /\ pc = "awaiting"
    /\ result' = ValidateClassic(content, payload)
    /\ failure' = Handler(ClassicRaises(content, payload))
    /\ response' = "answered"
    /\ pc' = "done"
    /\ UNCHANGED <<op, revision_request, original_scenes, revised_scenes,
                   scene_changes, edits, model_calls, payload, content>>
    /\ UNCHANGED callbackVars

(* generate_revised_wan_scenes_with_gpt4 from the response to its return *)
ReturnWan ==
    /\ op = "wan" /\ pc = "awaiting"
    /\ result' = ValidateWan(content, payload, revision_request)
    /\ failure' = Handler(WanRaises(content, payload))
    /\ response' = "answered"
    /\ pc' = "done"
    /\ UNCHANGED <<op, revision_request, original_scenes, revised_scenes,
                   scene_changes, edits, model_calls, payload, content>>
    /\ UNCHANGED callbackVars

(* send_video_callback up to the awaited POST: the payload and the headers    *)
(* are built, reading settings.base44_app_id, and the one request is sent     *)
SendVideoCallback ==
    /\ op = "video_callback" /\ pc = "start"
    /\ IF settings_ok
       THEN /\ pc' = "posting"
            /\ posts' = posts + 1
            /\ endpoint_url' = StaticEndpoint
            /\ post_payload' = VideoPayload(is_revision)
            /\ UNCHANGED <<failure, delivered>>
       ELSE /\ pc' = "done"
            /\ failure' = Handler(TRUE)
            /\ delivered' = FALSE
            /\ UNCHANGED <<posts, endpoint_url, post_payload>>
    /\ UNCHANGED <<op, is_revision, settings_ok, callback_url, outcome,
                   status_code>>
    /\ UNCHANGED revisionVars

(* send_error_callback up to the awaited POST *)
SendErrorCallback ==
    /\ op = "error_callback" /\ pc = "start"
    /\ IF settings_ok
       THEN /\ pc' = "posting"
            /\ posts' = posts + 1
            /\ endpoint_url' = StaticEndpoint
            /\ post_payload' = ErrorPayload(is_revision)
            /\ UNCHANGED <<failure, delivered>>
       ELSE /\ pc' = "done"
            /\ failure' = Handler(TRUE)
            /\ delivered' = FALSE
            /\ UNCHANGED <<posts, endpoint_url, post_payload>>
    /\ UNCHANGED <<op, is_revision, settings_ok, callback_url, outcome,
                   status_code>>
    /\ UNCHANGED revisionVars

(* lines 84-94, 170-175: the endpoint answered *)
PostAnswered ==
    /\ op \in Callbacks /\ pc = "posting"
    /\ \E code \in StatusCodes :
          /\ status_code' = code
          /\ delivered' = Success(code)
    /\ outcome' = "status"
    /\ failure' = Handler(FALSE)
    /\ pc' = "done"
    /\ UNCHANGED <<op, is_revision, settings_ok, callback_url, endpoint_url,
                   posts, post_payload>>
    /\ UNCHANGED revisionVars

(* lines 96-98, 177-179: no answer within the 30 seconds of the client *)
PostTimesOut ==
    /\ op \in Callbacks /\ pc = "posting"
    /\ outcome' = "timeout"
    /\ delivered' = FALSE
    /\ failure' = Handler(TRUE)
    /\ pc' = "done"
    /\ UNCHANGED <<op, is_revision, settings_ok, callback_url, endpoint_url,
                   posts, post_payload, status_code>>
    /\ UNCHANGED revisionVars

(* lines 99-105, 177-179: the request fails in transport (httpx.HTTPError or  *)
(* any other exception)                                                       *)
PostFails ==
    /\ op \in Callbacks /\ pc = "posting"
    /\ outcome' = "transport"
    /\ delivered' = FALSE
    /\ failure' = Handler(TRUE)
    /\ pc' = "done"
    /\ UNCHANGED <<op, is_revision, settings_ok, callback_url, endpoint_url,
                   posts, post_payload, status_code>>
    /\ UNCHANGED revisionVars

Next ==
    \/ EditOriginal
    \/ EditRevised
    \/ Compare
    \/ CallClassic
    \/ CallWan
    \/ EditPayload
    \/ EditText
    \/ ModelRaises
    \/ ReturnClassic
    \/ ReturnWan
    \/ SendVideoCallback
    \/ SendErrorCallback
    \/ PostAnswered
    \/ PostTimesOut
    \/ PostFails

Spec == Init /\ [][Next]_vars

----------------------------------------------------------------------------
(* Properties *)

TextFields ==
    {"image_prompt", "vioce_over", "eleven_labs_emotion",
     "eleven_labs_voice_id", "visual_description"}

(* every element is a dict and every compared field it carries is text *)
AllText(scenes) ==
    \A i \in 1..Len(scenes) :
        /\ IsDict(scenes[i])
        /\ \A field \in TextFields \cap DOMAIN scenes[i].f :
              IsStr(scenes[i].f[field])

(* every scene carries an integer scene_number *)
Numbered(scenes) ==
    \A i \in 1..Len(scenes) :
        /\ IsDict(scenes[i])
        /\ "scene_number" \in DOMAIN scenes[i].f
        /\ scenes[i].f["scene_number"].t = "int"

(* a valid scene set: scene_number keys 1..N without duplicates, text fields *)
ValidSceneSet(scenes) ==
    /\ Numbered(scenes)
    /\ AllText(scenes)
    /\ \A n \in 1..Len(scenes) :
          Cardinality({i \in 1..Len(scenes) :
                          scenes[i].f["scene_number"].n = n}) = 1

(* the entries of the diff for scene number n *)
EntriesFor(n) == {j \in 1..Len(scene_changes) : scene_changes[j].scene_number = n}

Compared == op = "compare" /\ pc = "done"

Returned == op \in {"classic", "wan"} /\ pc = "done" /\ response = "answered"

Expected(workflow) == IF workflow = "wan" THEN WanScenes ELSE ClassicScenes

(* C1: diffing a valid scene set against itself gives one entry per scene,   *)
(* all three regeneration flags false, and the scene's own image_url,        *)
(* voiceover_url and scene_clip_url carried as the original URLs (the empty  *)
(* string where the scene has none).                                         *)
C1_NoOpRevision ==
    (Compared /\ revised_scenes = original_scenes
              /\ ValidSceneSet(original_scenes))
    => /\ Len(scene_changes) = Len(original_scenes)
       /\ \A i \in 1..Len(original_scenes) :
             LET a == original_scenes[i].f
             IN  \E j \in 1..Len(scene_changes) :
                    LET e == scene_changes[j]
                    IN  /\ e.scene_number = a["scene_number"].n
                        /\ ~e.image_needs_regen
                        /\ ~e.voiceover_needs_regen
                        /\ ~e.video_needs_regen
                        /\ e.original_image_url = Get(a, "image_url", EmptyText)
                        /\ e.original_voiceover_url
                             = Get(a, "voiceover_url", EmptyText)
                        /\ e.original_video_url
                             = Get(a, "scene_clip_url", EmptyText)

(* a valid list that departs from the stock one was diffed against itself *)
C1_Witness ==
    /\ Compared
    /\ revised_scenes = original_scenes
    /\ ValidSceneSet(original_scenes)
    /\ edits > 0
    /\ Len(scene_changes) = Len(original_scenes)

(* C2: in every entry the diff returns, image_needs_regen implies            *)
(* video_needs_regen.                                                        *)
C2_ImageImpliesVideo ==
    Compared
    => \A j \in 1..Len(scene_changes) :
          scene_changes[j].image_needs_regen
          => scene_changes[j].video_needs_regen

(* an entry has the image flag set although the scene's visual_description   *)
(* is the stored one                                                         *)
C2_Witness ==
    /\ Compared
    /\ \E j \in 1..Len(scene_changes) :
          LET n == scene_changes[j].scene_number
          IN  /\ scene_changes[j].image_needs_regen
              /\ scene_changes[j].video_needs_regen
              /\ n <= Len(original_scenes)
              /\ IsDict(original_scenes[n]) /\ IsDict(revised_scenes[n])
              /\ "visual_description" \in DOMAIN revised_scenes[n].f
              /\ "visual_description" \in DOMAIN original_scenes[n].f
              /\ revised_scenes[n].f["visual_description"]
                   = original_scenes[n].f["visual_description"]
              /\ revised_scenes[n].f["scene_number"] = JInt(n)
              /\ original_scenes[n].f["scene_number"] = JInt(n)

(* C3: a validator returns nothing unless the parsed scene sequence has      *)
(* exactly N elements, N = 5 (classic) or 6 (WAN).                           *)
C3_ArityGate ==
    (Returned /\ Len(payload.scenes) # Expected(op))
    => result = NoResult

(* a response of N - 1 complete scenes was answered and rejected *)
C3_Witness ==
    /\ Returned
    /\ content = <<"P">>
    /\ payload.shape = "object"
    /\ Len(payload.scenes) = Expected(op) - 1
    /\ ~MembershipRaises(payload.scenes)
    /\ ~MissingField(payload.scenes,
                     IF op = "wan" THEN WanRequired ELSE ClassicRequired)
    /\ result = NoResult

(* the fields an accepted scene carries, in the names of the returned list *)
ReturnedFields(workflow) ==
    IF workflow = "wan"
    THEN {"scene_number", "image_prompt", "visual_description", "vioce_over",
          "eleven_labs_emotion", "eleven_labs_voice_id"}
    ELSE ClassicRequired

(* the response field a returned field is taken from *)
ResponseField(workflow, field) ==
    IF workflow # "wan" THEN field
    ELSE CASE field = "image_prompt" -> "nano_banana_prompt"
           [] field = "visual_description" -> "wan2_5_prompt"
           [] field = "vioce_over" -> "elevenlabs_prompt"
           [] OTHER -> field

(* C4: if any scene of the response lacks any required field of the dialect, *)
(* the validator returns nothing; what it returns otherwise has exactly N    *)
(* scenes, each carrying every required field with the value the response    *)
(* gave it (no default stands in for a missing field).                       *)
C4_SchemaGate ==
    Returned
    => /\ (\E i \in 1..Len(payload.scenes) :
              /\ IsDict(payload.scenes[i])
              /\ \E field \in (IF op = "wan" THEN WanRequired ELSE ClassicRequired) :
                    field \notin DOMAIN payload.scenes[i].f)
          => result = NoResult
       /\ result # NoResult
          => /\ Len(result.scenes) = Expected(op)
             /\ \A i \in 1..Len(result.scenes) :
                   \A field \in ReturnedFields(op) :
                      /\ field \in DOMAIN result.scenes[i].f
                      /\ ResponseField(op, field) \in DOMAIN payload.scenes[i].f
                      /\ result.scenes[i].f[field]
                           = payload.scenes[i].f[ResponseField(op, field)]

(* a response of N scenes of which exactly one lacks a field was rejected *)
C4_Witness ==
    /\ Returned
    /\ content = <<"P">>
    /\ payload.shape = "object"
    /\ Len(payload.scenes) = Expected(op)
    /\ ~MembershipRaises(payload.scenes)
    /\ Cardinality({i \in 1..Len(payload.scenes) :
                       DOMAIN payload.scenes[i].f
                         # (IF op = "wan" THEN WanRequired ELSE ClassicRequired)}) = 1
    /\ \A i \in 1..Len(payload.scenes) :
          Cardinality(DOMAIN payload.scenes[i].f) >= 5
    /\ result = NoResult

(* C5: every revised scene list a validator returns for a valid stored list  *)
(* has the scene_number values 1..N, without duplicates or gaps, each the one *)
(* the scene of the stored list had.                                          *)
C5_SceneNumberIntegrity ==
    (Returned /\ result # NoResult /\ ValidSceneSet(original_scenes))
    => /\ Len(result.scenes) = Len(original_scenes)
       /\ \A i \in 1..Len(result.scenes) :
             /\ result.scenes[i].f["scene_number"] = JInt(i)
             /\ result.scenes[i].f["scene_number"]
                  = Get(original_scenes[i].f, "scene_number", JNull)

(* the scenes of a list that carry scene number n *)
Carrying(scenes, n) ==
    {i \in 1..Len(scenes) : Get(scenes[i].f, "scene_number", JNull) = JInt(n)}

(* field, read with its default and trimmed, differs between the two scenes *)
Differs(o, r, field, default) ==
    Strip(Get(o, field, default).s) # Strip(Get(r, field, default).s)

(* the revised scene departs from the original one in this field alone *)
OnlyChange(o, r, field, default) ==
    /\ Del(o, field) = Del(r, field)
    /\ Differs(o, r, field, default)

(* C6: for lists of numbered text scenes and a scene number in the diffed     *)
(* range carried by one original and one revised scene, if the revised scene  *)
(* differs from the original only in eleven_labs_emotion, or only in          *)
(* eleven_labs_voice_id, by a value that differs after trimming, the entry of *)
(* that scene has voiceover_needs_regen true and image_needs_regen and        *)
(* video_needs_regen false.                                                   *)
C6_VoiceOnlyChange ==
    (Compared /\ Numbered(original_scenes) /\ Numbered(revised_scenes)
              /\ AllText(original_scenes) /\ AllText(revised_scenes))
    => \A n \in 1..Len(revised_scenes) :
          \A i \in Carrying(original_scenes, n), j \in Carrying(revised_scenes, n) :
             (/\ Carrying(original_scenes, n) = {i}
              /\ Carrying(revised_scenes, n) = {j}
              /\ \/ OnlyChange(original_scenes[i].f, revised_scenes[j].f,
                               "eleven_labs_emotion", Neutral)
                 \/ OnlyChange(original_scenes[i].f, revised_scenes[j].f,
                               "eleven_labs_voice_id", WiseWoman))
             => /\ Cardinality(EntriesFor(n)) = 1
                /\ \A k \in EntriesFor(n) :
                      /\ scene_changes[k].voiceover_needs_regen
                      /\ ~scene_changes[k].image_needs_regen
                      /\ ~scene_changes[k].video_needs_regen

(* the voice id of every scene of a WAN list was changed, and every entry of  *)
(* the diff asks for the voiceover alone                                      *)
C6_Witness ==
    /\ Compared
    /\ Len(original_scenes) = WanScenes
    /\ Len(scene_changes) = WanScenes
    /\ \A n \in 1..WanScenes :
          /\ OnlyChange(original_scenes[n].f, revised_scenes[n].f,
                        "eleven_labs_voice_id", WiseWoman)
          /\ scene_changes[n].voiceover_needs_regen
          /\ ~scene_changes[n].image_needs_regen
          /\ ~scene_changes[n].video_needs_regen

(* C7: every entry of the diff is the entry of an original and a revised      *)
(* scene keyed by its number for which each flag is true exactly when one of  *)
(* its contributing fields differs after trimming: image_prompt for the       *)
(* image; vioce_over, emotion and voice id for the voiceover;                 *)
(* visual_description and image_prompt for the video.                         *)
C7_ReuseValidity ==
    Compared
    => \A k \in 1..Len(scene_changes) :
          LET e == scene_changes[k]
          IN  \E i \in 1..Len(original_scenes), j \in 1..Len(revised_scenes) :
                 LET o == original_scenes[i].f
                     r == revised_scenes[j].f
                 IN  /\ Get(o, "scene_number", JInt(i)) = JInt(e.scene_number)
                     /\ Get(r, "scene_number", JInt(j)) = JInt(e.scene_number)
                     /\ e.image_needs_regen
                          <=> Differs(o, r, "image_prompt", EmptyText)
                     /\ e.voiceover_needs_regen
                          <=> \/ Differs(o, r, "vioce_over", EmptyText)
                              \/ Differs(o, r, "eleven_labs_emotion", Neutral)
                              \/ Differs(o, r, "eleven_labs_voice_id", WiseWoman)
                     /\ e.video_needs_regen
                          <=> \/ Differs(o, r, "visual_description", EmptyText)
                              \/ Differs(o, r, "image_prompt", EmptyText)

(* a revised image_prompt that differs from the stored one by surrounding     *)
(* whitespace only was diffed and the image is reused, while another scene's  *)
(* voiceover is regenerated                                                   *)
C7_Witness ==
    /\ Compared
    /\ \E k \in 1..Len(scene_changes) :
          LET n == scene_changes[k].scene_number
          IN  /\ ~scene_changes[k].image_needs_regen
              /\ ~scene_changes[k].video_needs_regen
              /\ Carrying(original_scenes, n) = {n}
              /\ Carrying(revised_scenes, n) = {n}
              /\ Get(original_scenes[n].f, "image_prompt", JNull)
                   # Get(revised_scenes[n].f, "image_prompt", JNull)
    /\ \E k \in 1..Len(scene_changes) : scene_changes[k].voiceover_needs_regen

StorageFields ==
    {"scene_number", "image_prompt", "visual_description", "vioce_over",
     "eleven_labs_emotion", "eleven_labs_voice_id", "sound_effects",
     "music_direction"}

(* a well-formed WAN storage list: every scene carries the eight content      *)
(* fields, sound_effects and music_direction being empty                      *)
WellFormedWan(scenes) ==
    \A i \in 1..Len(scenes) :
        /\ IsDict(scenes[i])
        /\ StorageFields \subseteq DOMAIN scenes[i].f
        /\ scenes[i].f["sound_effects"] = EmptyText
        /\ scenes[i].f["music_direction"] = EmptyText

(* the model answered with the scenes it was sent, unchanged *)
Echoed ==
    /\ op = "wan" /\ pc = "done" /\ response = "answered"
    /\ payload = Document("object", wan_scenes_for_ai(original_scenes))
    /\ result # NoResult

(* C8 as stated: mapping a well-formed WAN storage record to the model-facing *)
(* record and back yields a record equal to it, asset locations included.     *)
C8_RoundTripWhole ==
    (Echoed /\ WellFormedWan(original_scenes))
    => /\ Len(result.scenes) = Len(original_scenes)
       /\ \A i \in 1..Len(original_scenes) :
             result.scenes[i].f = original_scenes[i].f

(* C8 amended: the round trip yields the record's eight content fields,       *)
(* unchanged, and none of its asset-location fields.                          *)
C8_RoundTripContent ==
    (Echoed /\ WellFormedWan(original_scenes))
    => /\ Len(result.scenes) = Len(original_scenes)
       /\ \A i \in 1..Len(original_scenes) :
             /\ DOMAIN result.scenes[i].f = StorageFields
             /\ \A field \in StorageFields :
                   result.scenes[i].f[field] = original_scenes[i].f[field]

(* a well-formed stored WAN list with asset locations, departing from the     *)
(* stock one, went to the model and back                                      *)
C8_Witness ==
    /\ Echoed
    /\ WellFormedWan(original_scenes)
    /\ edits > 0
    /\ original_scenes # StoredScenes("wan")
    /\ \A i \in 1..Len(original_scenes) :
          "image_url" \in DOMAIN original_scenes[i].f

(* where the document stands in the response text *)
DocumentAt == {i \in 1..Len(content) : content[i] = "P"}

NotWhitespace(c) == c \notin Whitespace

(* the characters before and after the document, whitespace left out *)
LeadOf(text, p) == SelectSeq(SubSeq(text, 1, p - 1), NotWhitespace)

TrailOf(text, p) == SelectSeq(SubSeq(text, p + 1, Len(text)), NotWhitespace)

(* the text is one document between at most one marker at each end *)
FencedDocument(text) ==
    \E p \in 1..Len(text) :
        /\ text[p] = "P"
        /\ LeadOf(text, p) \in {<<>>, FenceOpen}
        /\ TrailOf(text, p) \in {<<>>, FenceClose}

(* the document has exactly N scenes, each with every required field, the    *)
(* scene_number an integer and the other fields text                         *)
WellFormedResponse(doc, workflow) ==
    /\ doc.shape \in {"object", "list"}
    /\ Len(doc.scenes) = Expected(workflow)
    /\ \A i \in 1..Len(doc.scenes) :
          /\ IsDict(doc.scenes[i])
          /\ \A field \in (IF workflow = "wan" THEN WanRequired ELSE ClassicRequired) :
                /\ field \in DOMAIN doc.scenes[i].f
                /\ doc.scenes[i].f[field].t
                     = IF field = "scene_number" THEN "int" ELSE "str"

(* what the validator returns for the document alone *)
ForDocumentAlone ==
    IF op = "wan" THEN ValidateWan(<<"P">>, payload, revision_request)
    ELSE ValidateClassic(<<"P">>, payload)

(* C9: a well-formed document between an optional leading "```json" and an   *)
(* optional trailing "```", with whitespace around them, is accepted and      *)
(* gives the scenes the document alone gives; with a second marker at either  *)
(* end nothing is returned, only one marker being removed at each end.        *)
C9_FenceTolerance ==
    (Returned /\ WellFormedResponse(payload, op))
    => \A p \in DocumentAt :
          /\ (LeadOf(content, p) \in {<<>>, FenceOpen}
                /\ TrailOf(content, p) \in {<<>>, FenceClose})
             => /\ result # NoResult
                /\ result = ForDocumentAlone
                /\ op = "classic" => result.scenes = payload.scenes
          /\ (LeadOf(content, p) = FenceOpen \o FenceOpen
                \/ TrailOf(content, p) = FenceClose \o FenceClose)
             => result = NoResult

(* a well-formed document inside both markers, with whitespace, was accepted *)
C9_Witness ==
    /\ Returned
    /\ WellFormedResponse(payload, op)
    /\ \E p \in DocumentAt :
          /\ LeadOf(content, p) = FenceOpen
          /\ TrailOf(content, p) = FenceClose
    /\ Len(content) > Len(FenceOpen) + 1 + Len(FenceClose)
    /\ result # NoResult

(* C10: when the response text is not one document between at most one       *)
(* marker at each end (so that what is left after the fence stripping does    *)
(* not parse: an empty or blank text, other text, text inside markers), both  *)
(* validators return nothing.                                                 *)
C10_ParseFailClosed ==
    (Returned /\ ~FencedDocument(content)) => result = NoResult

(* unparseable text inside both markers was answered and rejected *)
C10_Witness ==
    /\ Returned
    /\ content = FenceOpen \o <<"x">> \o FenceClose
    /\ result = NoResult

(* what an accepted response gives back: its scenes, renamed for WAN *)
AcceptedScenes ==
    IF op = "wan" THEN database_format_scenes(payload.scenes) ELSE payload.scenes

(* C11: the scene sequence is taken from a bare top-level list or from a      *)
(* top-level object's "scenes" list, so a well-formed sequence in either      *)
(* place is accepted; any other top-level shape (an object without "scenes",  *)
(* an object whose "scenes" is not a list, a string, number, boolean or null) *)
(* gives the empty result.                                                    *)
C11_TopLevelShape ==
    Returned
    => /\ payload.shape \notin {"object", "list"} => result = NoResult
       /\ (WellFormedResponse(payload, op) /\ content = <<"P">>)
          => /\ result # NoResult
             /\ result.scenes = AcceptedScenes

(* an object that carries N complete scenes under another key than "scenes"   *)
(* was answered, alone in the text, and rejected                              *)
C11_Witness ==
    /\ Returned
    /\ content = <<"P">>
    /\ payload.shape = "no_scenes"
    /\ WellFormedResponse(Document("object", payload.scenes), op)
    /\ result = NoResult

(* some element of the list is not a dict *)
HasNonDict(scenes) == \E i \in 1..Len(scenes) : ~IsDict(scenes[i])

(* C12: whatever the input data (response text of any content, scene lists    *)
(* with elements that are no dicts, with missing, null or non-text fields),   *)
(* no call of the three functions ends with an exception reaching the caller: *)
(* when the body raises, the function returns the empty result; in particular *)
(* a list with an element that is no dict gives the empty result.             *)
C12_SentinelPropagation ==
    (op \in {"compare", "classic", "wan"} /\ pc = "done")
    => /\ failure # "escaped"
       /\ failure = "caught" => (result = NoResult /\ scene_changes = <<>>)
       /\ (Compared /\ (HasNonDict(original_scenes) \/ HasNonDict(revised_scenes)))
          => scene_changes = <<>>
       /\ (Returned /\ HasNonDict(payload.scenes)) => result = NoResult
       /\ (op \in {"classic", "wan"} /\ HasNonDict(original_scenes))
          => result = NoResult

(* two lists of dicts were diffed, a revised vioce_over being a number: the   *)
(* strip raised inside the body and the diff returned the empty list          *)
C12_Witness ==
    /\ Compared
    /\ ~HasNonDict(original_scenes)
    /\ ~HasNonDict(revised_scenes)
    /\ \E i \in 1..Len(revised_scenes) :
          Get(revised_scenes[i].f, "vioce_over", EmptyText).t = "int"
    /\ failure = "caught"
    /\ scene_changes = <<>>

(* no scene number is carried by two scenes of the list *)
NoDuplicates(scenes) ==
    \A i, j \in 1..Len(scenes) :
        scenes[i].f["scene_number"] = scenes[j].f["scene_number"] => i = j

(* the entry of scene number n is the one computed from scenes o and r *)
CorrectEntry(e, n, o, r) ==
    /\ e.scene_number = n
    /\ e.image_needs_regen <=> Differs(o, r, "image_prompt", EmptyText)
    /\ e.voiceover_needs_regen
         <=> \/ Differs(o, r, "vioce_over", EmptyText)
             \/ Differs(o, r, "eleven_labs_emotion", Neutral)
             \/ Differs(o, r, "eleven_labs_voice_id", WiseWoman)
    /\ e.video_needs_regen
         <=> \/ Differs(o, r, "visual_description", EmptyText)
             \/ Differs(o, r, "image_prompt", EmptyText)

(* a scene number of 1..count carried by one of the two lists only *)
MatchGaps(count) ==
    {n \in 1..count :
        (Carrying(original_scenes, n) = {}) # (Carrying(revised_scenes, n) = {})}

(* C13: for lists of numbered text scenes without duplicates, N the number of *)
(* stored scenes (5 or 6): when some scene number of 1..N is carried by one   *)
(* list only, the diff does not fail, has no entry for such a number, and has *)
(* one correctly computed entry for every number of 1..N carried by both.     *)
C13_MatchGapLocal ==
    (/\ Compared
     /\ Numbered(original_scenes) /\ Numbered(revised_scenes)
     /\ AllText(original_scenes) /\ AllText(revised_scenes)
     /\ NoDuplicates(original_scenes) /\ NoDuplicates(revised_scenes)
     /\ MatchGaps(Len(original_scenes)) # {})
    => /\ failure = "none"
       /\ \A n \in 1..Len(original_scenes) :
             IF n \in MatchGaps(Len(original_scenes))
             THEN EntriesFor(n) = {}
             ELSE \A i \in Carrying(original_scenes, n),
                     j \in Carrying(revised_scenes, n) :
                     /\ Cardinality(EntriesFor(n)) = 1
                     /\ \A k \in EntriesFor(n) :
                           CorrectEntry(scene_changes[k], n,
                                        original_scenes[i].f,
                                        revised_scenes[j].f)

(* the revised list is the original one but for one field of one scene *)
DiffersOnlyAt(k, field, default) ==
    /\ Len(revised_scenes) = Len(original_scenes)
    /\ k \in 1..Len(original_scenes)
    /\ \A i \in 1..Len(original_scenes) :
          i # k => revised_scenes[i] = original_scenes[i]
    /\ OnlyChange(original_scenes[k].f, revised_scenes[k].f, field, default)

(* C14: for a valid classic set of 5 scenes and a revised set that differs    *)
(* from it only in scene 3's image_prompt, the diff has one entry per scene;  *)
(* scene 3 has image_needs_regen and video_needs_regen true and               *)
(* voiceover_needs_regen false; scenes 1, 2, 4 and 5 have all three false.    *)
C14_SceneLocality ==
    (/\ Compared
     /\ Len(original_scenes) = ClassicScenes
     /\ ValidSceneSet(original_scenes)
     /\ AllText(revised_scenes)
     /\ DiffersOnlyAt(3, "image_prompt", EmptyText))
    => /\ Len(scene_changes) = ClassicScenes
       /\ \A k \in 1..ClassicScenes :
             LET e == scene_changes[k]
             IN  /\ e.scene_number = k
                 /\ e.image_needs_regen <=> k = 3
                 /\ e.video_needs_regen <=> k = 3
                 /\ ~e.voiceover_needs_regen

(* the stock classic list was diffed against itself with another image_prompt *)
(* in scene 3, and the entry of scene 3 asks for the image                    *)
C14_Witness ==
    /\ Compared
    /\ original_scenes = StoredScenes("classic")
    /\ AllText(revised_scenes)
    /\ DiffersOnlyAt(3, "image_prompt", EmptyText)
    /\ "image_prompt" \in DOMAIN revised_scenes[3].f
    /\ Len(scene_changes) = ClassicScenes
    /\ scene_changes[3].image_needs_regen

(* the eight keywords *)
Keywords ==
    {<<"n", "o", " ", "m", "u", "s", "i", "c">>,
     <<"n", "o", " ", "b", "a", "c", "k", "g", "r", "o", "u", "n", "d", " ",
       "m", "u", "s", "i", "c">>,
     <<"m", "i", "s", "s", "i", "n", "g", " ", "m", "u", "s", "i", "c">>,
     <<"a", "d", "d", " ", "m", "u", "s", "i", "c">>,
     <<"n", "e", "e", "d", "s", " ", "m", "u", "s", "i", "c">>,
     <<"w", "i", "t", "h", "o", "u", "t", " ", "m", "u", "s", "i", "c">>,
     <<"n", "o", " ", "s", "o", "u", "n", "d">>,
     <<"s", "i", "l", "e", "n", "t">>}

(* the letters of a text taken without their case *)
SameLetter(a, b) ==
    \/ a = b
    \/ \E i \in 1..Len(UpperCase) :
          {a, b} = {UpperCase[i], LowerCase[i]}

(* the request contains the keyword, case left aside *)
Mentions(request, keyword) ==
    \E p \in 0..(Len(request) - Len(keyword)) :
        \A i \in 1..Len(keyword) : SameLetter(request[p + i], keyword[i])

PrepareRaises ==
    IF op = "wan" THEN WanPrepareRaises(original_scenes)
    ELSE ClassicPrepareRaises(original_scenes)

(* the response fails a validation step: parse, format, arity or schema *)
ValidationFails ==
    \/ ~FencedDocument(content)
    \/ payload.shape \notin {"object", "list"}
    \/ Len(payload.scenes) # Expected(op)
    \/ \E i \in 1..Len(payload.scenes) :
          \/ ~IsDict(payload.scenes[i])
          \/ ~((IF op = "wan" THEN WanRequired ELSE ClassicRequired)
                  \subseteq DOMAIN payload.scenes[i].f)

(* C16 as stated: every invocation of a validator has issued the model call   *)
(* exactly once when it returns, and a validation failure gives the empty     *)
(* result.                                                                    *)
C16_ExactlyOneCall ==
    (op \in {"classic", "wan"} /\ pc = "done")
    => /\ model_calls = 1
       /\ (Returned /\ ValidationFails) => result = NoResult

(* C16 amended: an invocation issues the model call at most once: once when   *)
(* the prompt could be built from the stored scenes, never when building it   *)
(* raised; while the call is awaited and after any validation failure the     *)
(* count is one, and the failure gives the empty result.                      *)
C16_SingleCall ==
    op \in {"classic", "wan"}
    => /\ model_calls <= 1
       /\ pc = "awaiting" => model_calls = 1
       /\ pc = "done" => model_calls = (IF PrepareRaises THEN 0 ELSE 1)
       /\ (Returned /\ ValidationFails)
          => (model_calls = 1 /\ result = NoResult)

(* a complete classic response with one scene too many was rejected after the *)
(* one call                                                                   *)
C16_Witness ==
    /\ Returned /\ op = "classic"
    /\ content = <<"P">>
    /\ payload.shape = "object"
    /\ Len(payload.scenes) = ClassicScenes + 1
    /\ model_calls = 1
    /\ result = NoResult

VoiceFields == {"eleven_labs_emotion", "eleven_labs_voice_id"}

(* the value an absent voice field stands for *)
Standing(field) ==
    IF field = "eleven_labs_emotion" THEN <<"n", "e", "u", "t", "r", "a", "l">>
    ELSE <<"W", "i", "s", "e", "_", "W", "o", "m", "a", "n">>

(* the two scenes agree on a voice field: both lack it, one lacks it and the  *)
(* other carries the value it stands for, or both carry the same value        *)
(* (surrounding whitespace aside)                                             *)
VoiceFieldAgrees(a, b, field) ==
    CASE field \notin DOMAIN a /\ field \notin DOMAIN b -> TRUE
      [] field \notin DOMAIN a -> Strip(b[field].s) = Standing(field)
      [] field \notin DOMAIN b -> Strip(a[field].s) = Standing(field)
      [] OTHER -> Strip(a[field].s) = Strip(b[field].s)

(* C18: for two matched text scenes with equal vioce_over of which one lacks  *)
(* eleven_labs_emotion or eleven_labs_voice_id, voiceover_needs_regen is      *)
(* false when, for each field one side lacks, the other side lacks it too or  *)
(* carries "neutral" (emotion) or "Wise_Woman" (voice id), and true when the  *)
(* other side carries any other emotion or voice id.                          *)
C18_VoiceoverDefaults ==
    (Compared /\ Numbered(original_scenes) /\ Numbered(revised_scenes)
              /\ AllText(original_scenes) /\ AllText(revised_scenes))
    => \A n \in 1..Len(revised_scenes) :
          \A i \in Carrying(original_scenes, n), j \in Carrying(revised_scenes, n) :
             LET o == original_scenes[i].f
                 r == revised_scenes[j].f
             IN  (/\ Carrying(original_scenes, n) = {i}
                  /\ Carrying(revised_scenes, n) = {j}
                  /\ ~Differs(o, r, "vioce_over", EmptyText)
                  /\ \E field \in VoiceFields :
                        field \notin DOMAIN o \/ field \notin DOMAIN r)
                 => /\ Cardinality(EntriesFor(n)) = 1
                    /\ \A k \in EntriesFor(n) :
                          scene_changes[k].voiceover_needs_regen
                            <=> \E field \in VoiceFields :
                                   ~VoiceFieldAgrees(o, r, field)

(* a classic list without voice fields was diffed with a revised list whose   *)
(* scenes all carry "neutral", scene 3 carrying another voice id as well: the *)
(* voiceover of scene 1 is reused and that of scene 3 is asked for            *)
C18_Witness ==
    /\ Compared
    /\ original_scenes = StoredScenes("classic")
    /\ Len(revised_scenes) = ClassicScenes
    /\ \A i \in 1..ClassicScenes :
          /\ IsDict(revised_scenes[i])
          /\ Get(revised_scenes[i].f, "eleven_labs_emotion", JNull) = Neutral
    /\ Get(revised_scenes[3].f, "eleven_labs_voice_id", JNull) = DeepVoiceMan
    /\ Len(scene_changes) = ClassicScenes
    /\ ~scene_changes[1].voiceover_needs_regen
    /\ scene_changes[3].voiceover_needs_regen

(* the location of an asset of a stored scene, the empty string when the      *)
(* scene has none                                                             *)
AssetUrl(scene, field) ==
    IF field \in DOMAIN scene THEN scene[field] ELSE JStr(<<>>)

(* C19: every entry of the diff reports, as original_image_url,               *)
(* original_voiceover_url and original_video_url, the image_url,              *)
(* voiceover_url and scene_clip_url of the original scene of its number,      *)
(* whether its flags are true or false, the empty string for an asset the     *)
(* original scene does not have, and never the revised scene's URL where that *)
(* differs.                                                                   *)
C19_UrlCarryForward ==
    Compared
    => \A k \in 1..Len(scene_changes) :
          LET e == scene_changes[k]
          IN  /\ \E i \in 1..Len(original_scenes) :
                    LET o == original_scenes[i].f
                    IN  /\ Get(o, "scene_number", JInt(i)) = JInt(e.scene_number)
                        /\ e.original_image_url = AssetUrl(o, "image_url")
                        /\ e.original_voiceover_url = AssetUrl(o, "voiceover_url")
                        /\ e.original_video_url = AssetUrl(o, "scene_clip_url")
              /\ \A j \in 1..Len(revised_scenes) :
                    LET r == revised_scenes[j].f
                        o == MapGet(original_scenes, e.scene_number)
                    IN  (/\ Get(r, "scene_number", JInt(j)) = JInt(e.scene_number)
                         /\ AssetUrl(r, "image_url") # AssetUrl(o, "image_url"))
                        => e.original_image_url # AssetUrl(r, "image_url")

(* the revised scene 3 came with another image_prompt and another image_url:  *)
(* its entry asks for the image and still reports the stored image_url; the   *)
(* last scene, whose clip was never generated, reports the empty string       *)
C19_Witness ==
    /\ Compared
    /\ original_scenes = StoredScenes("wan")
    /\ Len(scene_changes) = WanScenes
    /\ scene_changes[3].image_needs_regen
    /\ scene_changes[3].original_image_url = original_scenes[3].f["image_url"]
    /\ Get(revised_scenes[3].f, "image_url", JNull)
         # original_scenes[3].f["image_url"]
    /\ ~scene_changes[WanScenes].video_needs_regen
    /\ scene_changes[WanScenes].original_video_url = JStr(<<>>)

(* the renaming of the WAN response's fields into storage fields *)
Renaming ==
    [scene_number |-> "scene_number",
     image_prompt |-> "nano_banana_prompt",
     visual_description |-> "wan2_5_prompt",
     vioce_over |-> "elevenlabs_prompt",
     eleven_labs_emotion |-> "eleven_labs_emotion",
     eleven_labs_voice_id |-> "eleven_labs_voice_id"]

(* C20: for every accepted WAN response the returned list has the response's  *)
(* scenes in the same order; each returned scene has exactly the eight        *)
(* storage fields: the six renamed ones with the value the response scene at  *)
(* the same position gives them (whatever it is: no default stands in for     *)
(* it), and sound_effects and music_direction empty, whatever the response    *)
(* says of them.                                                              *)
C20_ExactRenaming ==
    (Returned /\ op = "wan" /\ result.pair)
    => /\ Len(result.scenes) = Len(payload.scenes)
       /\ \A i \in 1..Len(result.scenes) :
             LET stored == result.scenes[i].f
                 answered == payload.scenes[i].f
             IN  /\ DOMAIN stored = DOMAIN Renaming
                                      \cup {"sound_effects", "music_direction"}
                 /\ \A field \in DOMAIN Renaming :
                       /\ Renaming[field] \in DOMAIN answered
                       /\ stored[field] = answered[Renaming[field]]
                 /\ stored["sound_effects"] = JStr(<<>>)
                 /\ stored["music_direction"] = JStr(<<>>)

(* an accepted WAN response whose scene 3 has a null emotion and names a      *)
(* sound effect: the stored scene 3 has the null emotion and no sound effect  *)
C20_Witness ==
    /\ Returned /\ op = "wan" /\ result.pair
    /\ Get(payload.scenes[3].f, "eleven_labs_emotion", Neutral) = JNull
    /\ Get(payload.scenes[3].f, "sound_effects", JNull) = JStr(<<"b">>)
    /\ result.scenes[3].f["eleven_labs_emotion"] = JNull
    /\ result.scenes[3].f["sound_effects"] = JStr(<<>>)

(* the WAN response passes every validation step and its image prompts can be *)
(* logged                                                                     *)
WanSucceeds ==
    /\ Returned
    /\ ~ValidationFails
    /\ \A i \in 1..Len(payload.scenes) :
          IsStr(payload.scenes[i].f["nano_banana_prompt"])

AudioFields == {"sound_effects", "music_direction"}

(* the scene without its audio-direction fields *)
WithoutAudio(scene) == Del(Del(scene, "sound_effects"), "music_direction")

(* the fields of an entry that hold a JSON value, and those that hold text *)
EntryUrls ==
    {"original_image_url", "original_voiceover_url", "original_video_url"}

EntryTexts ==
    {"revised_image_prompt", "revised_voiceover_prompt", "revised_emotion",
     "revised_voice_id", "revised_video_prompt"}

(* C22: when a revised classic list differs from a valid original one only in *)
(* sound_effects and/or music_direction of some scenes, every entry of the    *)
(* diff has image_needs_regen, voiceover_needs_regen and video_needs_regen    *)
(* false, has no field for the audio directions, and holds the changed value  *)
(* in none of its fields.                                                     *)
C22_AudioOutsideDiff ==
    (/\ Compared
     /\ Len(original_scenes) = ClassicScenes
     /\ ValidSceneSet(original_scenes)
     /\ Len(revised_scenes) = ClassicScenes
     /\ \A i \in 1..ClassicScenes :
           /\ IsDict(revised_scenes[i])
           /\ WithoutAudio(revised_scenes[i].f) = WithoutAudio(original_scenes[i].f)
           /\ AudioFields \subseteq DOMAIN revised_scenes[i].f
           /\ AudioFields \subseteq DOMAIN original_scenes[i].f
     /\ revised_scenes # original_scenes)
    => /\ Len(scene_changes) = ClassicScenes
       /\ \A k \in 1..ClassicScenes :
             LET e == scene_changes[k]
                 o == original_scenes[k].f
                 r == revised_scenes[k].f
             IN  /\ e.scene_number = k
                 /\ ~e.image_needs_regen
                 /\ ~e.voiceover_needs_regen
                 /\ ~e.video_needs_regen
                 /\ DOMAIN e = {"scene_number", "image_needs_regen",
                                "voiceover_needs_regen", "video_needs_regen"}
                               \cup EntryUrls \cup EntryTexts
                 /\ \A field \in AudioFields :
                       r[field] # o[field]
                       => /\ \A key \in EntryUrls : e[key] # r[field]
                          /\ \A key \in EntryTexts : e[key] # r[field].s

(* scene 3 of the stock classic list came back with other sound_effects and   *)
(* another music_direction, and its entry asks for nothing                    *)
C22_Witness ==
    /\ Compared
    /\ original_scenes = StoredScenes("classic")
    /\ Len(revised_scenes) = ClassicScenes
    /\ IsDict(revised_scenes[3])
    /\ WithoutAudio(revised_scenes[3].f) = WithoutAudio(original_scenes[3].f)
    /\ \A field \in AudioFields :
          Get(revised_scenes[3].f, field, JNull) = JStr(<<"b">>)
    /\ Len(scene_changes) = ClassicScenes
    /\ ~scene_changes[3].video_needs_regen

====
